---- MODULE Spec2Model ----
(***************************************************************************)
(* Service worker of the prayer application: versioned cache buckets,      *)
(* fetch interception, push notifications and notification-click routing.  *)
(* Two worker scripts exist in the repository: devotions/static/sw.js      *)
(* (CACHE_NAME 'prayer-app-v5') and the later script src/unnamed/part_000  *)
(* (CACHE_NAME 'prayer-app-v10').  They are modelled as two versions of    *)
(* one registration: "v5" is installed first (or never), "v10" after it.   *)
(*                                                                         *)
(* A URL string is a sequence of tokens: an absolute URL starts with an    *)
(* origin token, a relative one does not.  The concatenation of the tokens *)
(* is the string, so a prefix of tokens is a prefix of the string.         *)
(***************************************************************************)
EXTENDS Integers, Sequences, FiniteSets, TLC

(* ---------------------------- bounds ----------------------------------- *)
MaxFetch == 1      \* fetch events in flight at once
MaxBg    == 1      \* unawaited write-backs in flight at once
MaxRaceBg == 2     \* the same, where navigations race (RaceSpec)

(* ---------------------- worker scripts and constants ------------------- *)
Workers == {"v5", "v10"}

CACHE_NAME(w) == IF w = "v10" THEN "prayer-app-v10" ELSE "prayer-app-v5"

ASSETS_TO_CACHE(w) ==
  IF w = "v10"
  THEN << <<"/static", "/styles.css">>,
          <<"/static", "/banner.jpg">>,
          <<"/static", "/icons", "/favicon.ico">>,
          <<"/static", "/icons", "/android-chrome-192x192.png">>,
          <<"/static", "/icons", "/android-chrome-512x512.png">> >>
  ELSE << <<"/static", "/styles.css">>,
          <<"/static", "/favicon.svg">>,
          <<"/static", "/banner.jpg">> >>

\* self.location.origin: the origin the worker is served from
Origin == "https://app"
OtherOrigin == "https://other"
Origins == {Origin, OtherOrigin}

(* ------------------------------ URLs ----------------------------------- *)
IsAbsolute(u) == Len(u) > 0 /\ u[1] \in Origins

\* new URL(raw, base).href : an absolute URL keeps its origin, a relative
\* one is put on the base origin; an empty path becomes "/"
ResolveUrl(raw, base) ==
  LET abs == IF IsAbsolute(raw) THEN raw ELSE <<base>> \o raw
  IN  IF Len(abs) = 1 THEN abs \o <<"/">> ELSE abs

\* new URL(u).pathname
Pathname(u) == Tail(ResolveUrl(u, Origin))

\* String.prototype.startsWith
StartsWith(s, prefix) ==
  Len(s) >= Len(prefix) /\ SubSeq(s, 1, Len(prefix)) = prefix

\* the auth bypass of the fetch listener; sw.js has none
IsAuthRoute(w, path) ==
  /\ w = "v10"
  /\ StartsWith(path, <<"/login">>) \/ StartsWith(path, <<"/authorize">>)

(* ---------------------------- responses -------------------------------- *)
\* the content the server serves changes from day to day
Contents == {"monday", "tuesday"}

NoResponse == [status |-> 0, type |-> "none", body |-> "none"]

Ok200(b)  == [status |-> 200, type |-> "basic", body |-> b]
NotFound  == [status |-> 404, type |-> "basic", body |-> "not found"]
Cors200   == [status |-> 200, type |-> "cors", body |-> "foreign"]

\* the static assets are deployed with the worker version that lists them
AssetResponse(w) == Ok200(CACHE_NAME(w))

\* what the network can answer; the body tells the versions of the server's
\* content apart
NetResponses == {Ok200(b) : b \in Contents} \cup {NotFound, Cors200}

\* a write-back condition that does not look at the response type
IsCacheableAny(r) == r # NoResponse /\ r.status = 200

\* the write-back condition of the navigate branch
IsCacheable(r) == r # NoResponse /\ r.status = 200 /\ r.type = "basic"

(* --------------------------- cache storage ----------------------------- *)
\* CacheStorage: the buckets in creation order
EmptyEntries == [u \in {} |-> NoResponse]

BucketNames(cs) == {cs[i].name : i \in 1..Len(cs)}

HasBucket(cs, n) == n \in BucketNames(cs)

BucketIndex(cs, n) == CHOOSE i \in 1..Len(cs) : cs[i].name = n

\* caches.open(name): creates the bucket when absent
CachesOpen(cs, n) ==
  IF HasBucket(cs, n) THEN cs
  ELSE Append(cs, [name |-> n, entries |-> EmptyEntries])

EntriesPut(e, u, r) ==
  [x \in DOMAIN e \cup {u} |-> IF x = u THEN r ELSE e[x]]

\* a put that stores nothing
CachePutLost(cs, n, u, r) == cs

\* a put that stores into every bucket of the origin
CachePutEverywhere(cs, n, u, r) ==
  [i \in 1..Len(cs) |-> [cs[i] EXCEPT !.entries = EntriesPut(@, u, r)]]

\* cache.put(request, response) on the bucket named n; a bucket that was
\* deleted from storage after it was opened is no longer reachable
CachePut(cs, n, u, r) ==
  IF HasBucket(cs, n)
  THEN [cs EXCEPT ![BucketIndex(cs, n)].entries = EntriesPut(@, u, r)]
  ELSE cs

RECURSIVE EntriesPutAll(_, _, _)
EntriesPutAll(e, us, r) ==
  IF us = <<>> THEN e
  ELSE EntriesPutAll(EntriesPut(e, <<Origin>> \o Head(us), r), Tail(us), r)

\* an addAll that stores the first path only
CacheAddAllFirst(cs, n, us, r) ==
  IF HasBucket(cs, n)
  THEN [cs EXCEPT ![BucketIndex(cs, n)].entries =
          EntriesPut(@, <<Origin>> \o Head(us), r)]
  ELSE cs

\* cache.addAll(paths): every path is stored, in one batch
CacheAddAll(cs, n, us, r) ==
  IF HasBucket(cs, n)
  THEN [cs EXCEPT ![BucketIndex(cs, n)].entries = EntriesPutAll(@, us, r)]
  ELSE cs

\* caches.delete(name)
CachesDelete(cs, n) == SelectSeq(cs, LAMBDA b : b.name # n)

\* a lookup that never finds anything
CachesMatchMiss(cs, u) == NoResponse

\* caches.match(request): the first bucket, in creation order, that holds
\* the URL answers; NoResponse stands for undefined
CachesMatch(cs, u) ==
  LET hits == {i \in 1..Len(cs) : u \in DOMAIN cs[i].entries}
  IN  IF hits = {} THEN NoResponse
      ELSE cs[CHOOSE i \in hits : \A j \in hits : i <= j].entries[u]

(* ------------------------------ state ---------------------------------- *)
VARIABLES
  wstate,           \* lifecycle position of each worker script
  skipWaitingFlag,  \* set by self.skipWaiting()
  toDelete,         \* activate: bucket names whose deletion is pending
  controller,       \* the worker that has claimed the open pages
  caches,           \* cache storage of the origin
  events,           \* fetch events, one record per slot
  bg,               \* unawaited write-backs started by the navigate branch
  canOpenWindow,    \* whether the host offers clients.openWindow
  windows,          \* the open windows, in the order the host lists them
  push,             \* the push event being handled
  notif,            \* the notification on display
  click,            \* the notificationclick event being handled
  lastFetched       \* history: per URL, the basic 200 response of the
                    \* navigation fetch that completed last (RaceSpec)

cacheVars == <<wstate, skipWaitingFlag, toDelete, controller, caches, events,
               bg, lastFetched>>
notifVars == <<canOpenWindow, windows, push, notif, click>>
vars == <<cacheVars, notifVars, lastFetched>>

Slots == 1..MaxFetch
BgSlots == 1..MaxRaceBg

NoTask ==
  [w |-> "none", url |-> <<>>, resp |-> NoResponse, pc |-> "none",
   detached |-> FALSE]

IdleEvent ==
  [pc |-> "idle", w |-> "none", url |-> <<>>, mode |-> "none",
   nRespond |-> 0, net |-> 0, reads |-> 0, spawned |-> 0,
   netFailed |-> FALSE, outcome |-> "none", resp |-> NoResponse,
   src |-> "none"]

\* requests the pages make: the page itself, a precached stylesheet, a
\* script that is in no manifest, an icon that only the manifest of
\* part_000 lists, and the two authentication routes
Requests ==
  { [url |-> <<Origin, "/">>, mode |-> "navigate"],
    [url |-> <<Origin, "/static", "/styles.css">>, mode |-> "no-cors"],
    [url |-> <<Origin, "/static", "/app.js">>, mode |-> "no-cors"],
    [url |-> <<Origin, "/static", "/icons", "/favicon.ico">>,
     mode |-> "no-cors"],
    [url |-> <<Origin, "/login", "/google">>, mode |-> "navigate"],
    [url |-> <<Origin, "/authorize">>, mode |-> "no-cors"] }

\* the navigations among them, and their URLs
NavRequests == {q \in Requests : q.mode = "navigate"}
NavUrls == {q.url : q \in NavRequests}

NoneFetched == [u \in NavUrls |-> NoResponse]

\* a bucket left behind by an earlier deployment
OldResponse == Ok200("sunday")
StaleBucket ==
  [name |-> "prayer-app-v4",
   entries |-> EntriesPut(EntriesPut(EmptyEntries, <<Origin, "/">>,
                                     OldResponse),
                          <<Origin, "/static", "/styles.css">>, OldResponse)]

(* ------------------------- push and notifications --------------------- *)
MaxWindows == 2    \* windows open at once

\* a field of the push payload: absent (undefined) or a value
Absent(empty) == [present |-> FALSE, val |-> empty]
Given(v)      == [present |-> TRUE, val |-> v]

\* a || b where only undefined is taken for falsy
JsOrStrStrict(f, default) == IF f.present THEN f.val ELSE default

\* a || b on strings and on URL strings: undefined and "" are falsy
JsOrStr(f, default) == IF f.present /\ f.val # "" THEN f.val ELSE default
JsOrUrl(f, default) == IF f.present /\ f.val # <<>> THEN f.val ELSE default

EmptyData == [title |-> Absent(""), body |-> Absent(""), url |-> Absent(<<>>)]

PushData(t, b, u) == [title |-> t, body |-> b, url |-> u]

\* the data members the server sends
PushDatas ==
  { EmptyData,
    PushData(Given("T"), Given("B"), Given(<<"/x">>)),
    PushData(Given(""), Given(""), Given(<<>>)),
    PushData(Given("T"), Absent(""), Absent(<<>>)),
    PushData(Absent(""), Given("B"), Given(<<Origin, "/x">>)),
    PushData(Absent(""), Absent(""), Given(<<Origin>>)),
    PushData(Absent(""), Absent(""), Given(<<OtherOrigin, "/x">>)) }

\* event.data of a push event: none, bytes that are no JSON, or a JSON
\* object with or without the data member
PushMessages ==
  { [hasData |-> FALSE, decodable |-> FALSE, dataPresent |-> FALSE,
     data |-> EmptyData],
    [hasData |-> TRUE, decodable |-> FALSE, dataPresent |-> FALSE,
     data |-> EmptyData],
    [hasData |-> TRUE, decodable |-> TRUE, dataPresent |-> FALSE,
     data |-> EmptyData] }
  \cup
  { [hasData |-> TRUE, decodable |-> TRUE, dataPresent |-> TRUE,
     data |-> d] : d \in PushDatas }

NotificationIcon(w) ==
  IF w = "v10" THEN "/static/icons/android-chrome-192x192.png"
  ELSE "/static/favicon.svg"

NoNotification ==
  [state |-> "none", title |-> "", body |-> "", icon |-> "", badge |-> "",
   url |-> <<>>]

\* the title and the options object handed to showNotification
NotificationDescriptor(w, msg) ==
  LET data == IF msg.dataPresent THEN msg.data ELSE EmptyData
  IN  [state |-> "shown",
       title |-> JsOrStr(data.title, "Prayer Reminder"),
       body  |-> JsOrStr(data.body, "It's time for prayer."),
       icon  |-> NotificationIcon(w),
       badge |-> NotificationIcon(w),
       url   |-> JsOrUrl(data.url, <<"/">>)]

\* a push event without event.data
NoPayload ==
  [hasData |-> FALSE, decodable |-> FALSE, dataPresent |-> FALSE,
   data |-> EmptyData]

\* msg is the event's message, decoded whether event.data.json() returned,
\* shows the number of notifications the event has put on display
IdlePush == [pc |-> "idle", w |-> "none", pending |-> NoNotification,
             error |-> FALSE, msg |-> NoPayload, decoded |-> FALSE,
             shows |-> 0]

(* ------------------------- notification click -------------------------- *)
WinUrls == {<<Origin, "/">>, <<Origin, "/x">>}

\* a request the listener makes to the host
Op(name, id, u) == [op |-> name, id |-> id, url |-> u]

IdleClick ==
  [pc |-> "idle", w |-> "none", rawUrl |-> <<>>, urlToOpen |-> <<>>,
   open |-> <<>>, clients |-> <<>>, sel |-> 0, ops |-> <<>>,
   error |-> FALSE]

\* clients.matchAll({type: 'window', includeUncontrolled}): the windows as
\* the host lists them, each with its position as identity
MatchAll(ws, includeUncontrolled) ==
  LET all == [i \in 1..Len(ws) |->
                [id |-> i, url |-> ws[i].url, controlled |-> ws[i].controlled]]
  IN  SelectSeq(all, LAMBDA c : includeUncontrolled \/ c.controlled)

\* the first index of cs whose URL is u, 0 when there is none
FirstExact(cs, u) ==
  LET hits == {i \in 1..Len(cs) : cs[i].url = u}
  IN  IF hits = {} THEN 0 ELSE CHOOSE i \in hits : \A j \in hits : i <= j

\* part_000: exact match first, else the first window, else none
MatchingClient(cs, u) ==
  IF FirstExact(cs, u) # 0 THEN FirstExact(cs, u)
  ELSE IF Len(cs) > 0 THEN 1 ELSE 0

Init ==
  /\ wstate = [w \in Workers |-> "parsed"]
  /\ skipWaitingFlag = [w \in Workers |-> FALSE]
  /\ toDelete = [w \in Workers |-> {}]
  /\ controller = "none"
  /\ caches \in {<<>>, <<StaleBucket>>}
  /\ events = [s \in Slots |-> IdleEvent]
  /\ bg = [k \in BgSlots |-> NoTask]
  /\ canOpenWindow = TRUE
  /\ windows = <<>>
  /\ push = IdlePush
  /\ notif = NoNotification
  /\ click = IdleClick
  /\ lastFetched = NoneFetched

(* --------------------------- host lifecycle ---------------------------- *)
ActiveStates ==
  {"activate_keys", "activate_delete", "activate_claim", "activated"}

IsActive(w) == wstate[w] \in ActiveStates

\* extended-lifetime events of worker w that have not settled
HasPendingEvents(w) ==
  \E s \in Slots : events[s].w = w /\ events[s].pc \notin {"idle", "done"}

\* an outcome that has settled is taken by the page before anything else
\* happens (the "done" record of a slot only shows the outcome)
Quiet == \A s \in 1..MaxFetch : events[s].pc # "done"

(* install listener *)
InstallStart(w) ==
  /\ Quiet
  /\ wstate[w] = "parsed"
  /\ IF w = "v5" THEN wstate["v10"] = "parsed"
     ELSE wstate["v5"] \in {"parsed", "activated", "redundant"}
  /\ skipWaitingFlag' = [skipWaitingFlag EXCEPT ![w] = TRUE]
  /\ wstate' = [wstate EXCEPT ![w] = "install_open"]
  /\ UNCHANGED <<toDelete, controller, caches, events, bg,
                 notifVars, lastFetched>>

InstallOpen(w) ==
  /\ Quiet
  /\ wstate[w] = "install_open"
  /\ caches' = CachesOpen(caches, CACHE_NAME(w))
  /\ wstate' = [wstate EXCEPT ![w] = "install_addAll"]
  /\ UNCHANGED <<skipWaitingFlag, toDelete, controller, events, bg,
                 notifVars, lastFetched>>

\* cache.addAll resolves: every asset was fetched with an ok response
InstallAddAllOk(w) ==
  /\ Quiet
  /\ wstate[w] = "install_addAll"
  /\ caches' = CacheAddAll(caches, CACHE_NAME(w), ASSETS_TO_CACHE(w),
                           AssetResponse(w))
  /\ wstate' = [wstate EXCEPT ![w] = "installed"]
  /\ UNCHANGED <<skipWaitingFlag, toDelete, controller, events, bg,
                 notifVars, lastFetched>>

\* an addAll that rejects after it has stored the first asset
InstallAddAllFailPartial(w) ==
  /\ Quiet
  /\ wstate[w] = "install_addAll"
  /\ caches' = CacheAddAllFirst(caches, CACHE_NAME(w), ASSETS_TO_CACHE(w),
                                AssetResponse(w))
  /\ wstate' = [wstate EXCEPT ![w] = "redundant"]
  /\ UNCHANGED <<skipWaitingFlag, toDelete, controller, events, bg,
                 notifVars, lastFetched>>

\* cache.addAll rejects: the fetch of one asset failed; nothing is stored
InstallAddAllFail(w) ==
  /\ Quiet
  /\ wstate[w] = "install_addAll"
  /\ wstate' = [wstate EXCEPT ![w] = "redundant"]
  /\ UNCHANGED <<skipWaitingFlag, toDelete, controller, caches, events, bg,
                 notifVars, lastFetched>>

\* the host activates an installed worker: at once when nothing is active,
\* otherwise when the active worker has no pending event and the waiting
\* worker asked to skip waiting
TryActivate(w) ==
  /\ Quiet
  /\ wstate[w] = "installed"
  /\ \A o \in Workers \ {w} :
       IsActive(o) =>
         /\ wstate[o] = "activated"
         /\ ~HasPendingEvents(o)
         /\ skipWaitingFlag[w]
  /\ wstate' = [o \in Workers |->
                  IF o = w THEN "activate_keys"
                  ELSE IF IsActive(o) THEN "redundant" ELSE wstate[o]]
  /\ UNCHANGED <<skipWaitingFlag, toDelete, controller, caches, events, bg,
                 notifVars, lastFetched>>

(* activate listener *)
\* a cleanup that spares no bucket
StaleNamesAll(w, cs) == BucketNames(cs)

\* caches.keys(), then one caches.delete per name that differs
StaleNames(w, cs) == {n \in BucketNames(cs) : n # CACHE_NAME(w)}

ActivateKeys(w) ==
  /\ Quiet
  /\ wstate[w] = "activate_keys"
  /\ toDelete' = [toDelete EXCEPT ![w] = StaleNames(w, caches)]
  /\ wstate' = [wstate EXCEPT ![w] = "activate_delete"]
  /\ UNCHANGED <<skipWaitingFlag, controller, caches, events, bg,
                 notifVars, lastFetched>>

ActivateDelete(w, n) ==
  /\ Quiet
  /\ wstate[w] = "activate_delete"
  /\ n \in toDelete[w]
  /\ caches' = CachesDelete(caches, n)
  /\ toDelete' = [toDelete EXCEPT ![w] = @ \ {n}]
  /\ bg' = [k \in BgSlots |->
              IF bg[k].pc = "put" /\ CACHE_NAME(bg[k].w) = n
              THEN [bg[k] EXCEPT !.detached = TRUE] ELSE bg[k]]
  /\ UNCHANGED <<wstate, skipWaitingFlag, controller, events,
                 notifVars, lastFetched>>

\* Promise.all settled: self.clients.claim()
ActivateClaim(w) ==
  /\ Quiet
  /\ wstate[w] = "activate_delete"
  /\ toDelete[w] = {}
  /\ controller' = w
  /\ wstate' = [wstate EXCEPT ![w] = "activate_claim"]
  /\ UNCHANGED <<skipWaitingFlag, toDelete, caches, events, bg,
                 notifVars, lastFetched>>

\* the promise given to waitUntil settles
ActivateDone(w) ==
  /\ Quiet
  /\ wstate[w] = "activate_claim"
  /\ wstate' = [wstate EXCEPT ![w] = "activated"]
  /\ UNCHANGED <<skipWaitingFlag, toDelete, controller, caches, events, bg,
                 notifVars, lastFetched>>

(* --------------------------- fetch listener ---------------------------- *)
FreeSlot(s) ==
  /\ events[s].pc = "idle"
  /\ \A t \in Slots : t < s => events[t].pc # "idle"

\* the synchronous part of the listener
FetchDispatch(w, s, req) ==
  /\ Quiet
  /\ wstate[w] = "activated"
  /\ FreeSlot(s)
  /\ LET ev == [IdleEvent EXCEPT !.w = w, !.url = req.url, !.mode = req.mode]
     IN  events' = [events EXCEPT ![s] =
           IF IsAuthRoute(w, Pathname(req.url))
           THEN [ev EXCEPT !.pc = "done", !.outcome = "declined"]
           ELSE IF req.mode = "navigate"
           THEN [ev EXCEPT !.pc = "nav_fetch", !.nRespond = 1]
           ELSE [ev EXCEPT !.pc = "sub_match", !.nRespond = 1]]
  /\ UNCHANGED <<wstate, skipWaitingFlag, toDelete, controller, caches,
                 bg,
                 notifVars, lastFetched>>

WriteBack(w, u, r) ==
  [w |-> w, url |-> u, resp |-> r, pc |-> "open", detached |-> FALSE]

\* the slot a new write-back takes
FreeBgSlot(k) ==
  /\ bg[k] = NoTask
  /\ \A j \in BgSlots : j < k => bg[j] # NoTask

\* fetch(event.request) resolved, navigate branch: the then handler; at
\* most cap write-backs are in flight
NavFetchThen(s, r, cap) ==
  /\ Quiet
  /\ events[s].pc = "nav_fetch"
  /\ r \in NetResponses
  /\ IF IsCacheable(r)
     THEN \E k \in 1..cap :
            /\ FreeBgSlot(k)
            /\ bg' = [bg EXCEPT ![k] =
                        WriteBack(events[s].w, events[s].url, r)]
     ELSE bg' = bg
  /\ events' = [events EXCEPT ![s] =
       [@ EXCEPT !.pc = "done", !.net = @ + 1,
                 !.spawned = IF IsCacheable(r) THEN @ + 1 ELSE @,
                 !.outcome = "response", !.resp = r, !.src = "network"]]
  /\ UNCHANGED <<wstate, skipWaitingFlag, toDelete, controller, caches,
                 notifVars>>

NavFetchOk(s, r) == NavFetchThen(s, r, MaxBg) /\ UNCHANGED lastFetched

\* fetch(event.request) rejected, navigate branch: the catch handler
\* starts caches.match
NavFetchFail(s) ==
  /\ Quiet
  /\ events[s].pc = "nav_fetch"
  /\ events' = [events EXCEPT ![s] =
       [@ EXCEPT !.pc = "nav_match", !.net = @ + 1, !.netFailed = TRUE]]
  /\ UNCHANGED <<wstate, skipWaitingFlag, toDelete, controller, caches,
                 bg,
                 notifVars, lastFetched>>

\* caches.match settled in the catch handler; undefined fails the request
NavMatch(s) ==
  /\ Quiet
  /\ events[s].pc = "nav_match"
  /\ LET r == CachesMatch(caches, events[s].url)
     IN  events' = [events EXCEPT ![s] =
           IF r # NoResponse
           THEN [@ EXCEPT !.pc = "done", !.reads = @ + 1,
                          !.outcome = "response", !.resp = r,
                          !.src = "cache"]
           ELSE [@ EXCEPT !.pc = "done", !.reads = @ + 1,
                          !.outcome = "failed"]]
  /\ UNCHANGED <<wstate, skipWaitingFlag, toDelete, controller, caches,
                 bg,
                 notifVars, lastFetched>>

\* a cache-first branch that does not go to the network on a miss
SubMatchNoFetch(s) ==
  /\ Quiet
  /\ events[s].pc = "sub_match"
  /\ LET r == CachesMatch(caches, events[s].url)
     IN  events' = [events EXCEPT ![s] =
           IF r # NoResponse
           THEN [@ EXCEPT !.pc = "done", !.reads = @ + 1,
                          !.outcome = "response", !.resp = r,
                          !.src = "cache"]
           ELSE [@ EXCEPT !.pc = "done", !.reads = @ + 1,
                          !.outcome = "failed"]]
  /\ UNCHANGED <<wstate, skipWaitingFlag, toDelete, controller, caches,
                 bg,
                 notifVars, lastFetched>>

\* a cache-first branch that goes to the network whatever the cache holds
SubMatchNetFirst(s) ==
  /\ Quiet
  /\ events[s].pc = "sub_match"
  /\ events' = [events EXCEPT ![s] =
       [@ EXCEPT !.pc = "sub_fetch", !.reads = @ + 1]]
  /\ UNCHANGED <<wstate, skipWaitingFlag, toDelete, controller, caches, bg,
                 notifVars, lastFetched>>

\* caches.match settled, cache-first branch: response || fetch(request)
SubMatch(s) ==
  /\ Quiet
  /\ events[s].pc = "sub_match"
  /\ LET r == CachesMatch(caches, events[s].url)
     IN  events' = [events EXCEPT ![s] =
           IF r # NoResponse
           THEN [@ EXCEPT !.pc = "done", !.reads = @ + 1,
                          !.outcome = "response", !.resp = r,
                          !.src = "cache"]
           ELSE [@ EXCEPT !.pc = "sub_fetch", !.reads = @ + 1]]
  /\ UNCHANGED <<wstate, skipWaitingFlag, toDelete, controller, caches,
                 bg,
                 notifVars, lastFetched>>

SubFetchOk(s, r) ==
  /\ Quiet
  /\ events[s].pc = "sub_fetch"
  /\ r \in NetResponses
  /\ events' = [events EXCEPT ![s] =
       [@ EXCEPT !.pc = "done", !.net = @ + 1, !.outcome = "response",
                 !.resp = r, !.src = "network"]]
  /\ UNCHANGED <<wstate, skipWaitingFlag, toDelete, controller, caches,
                 bg,
                 notifVars, lastFetched>>

SubFetchFail(s) ==
  /\ Quiet
  /\ events[s].pc = "sub_fetch"
  /\ events' = [events EXCEPT ![s] =
       [@ EXCEPT !.pc = "done", !.net = @ + 1, !.netFailed = TRUE,
                 !.outcome = "failed"]]
  /\ UNCHANGED <<wstate, skipWaitingFlag, toDelete, controller, caches,
                 bg,
                 notifVars, lastFetched>>

\* the page has consumed the outcome; the later events move up a slot
Retire(s) ==
  /\ events[s].pc = "done"
  /\ events' = [t \in Slots |->
                  IF t < s THEN events[t]
                  ELSE IF t + 1 \in Slots THEN events[t + 1]
                  ELSE IdleEvent]
  /\ UNCHANGED <<wstate, skipWaitingFlag, toDelete, controller, caches,
                 bg,
                 notifVars, lastFetched>>

(* the unawaited write-back: caches.open(CACHE_NAME).then(cache.put) *)
\* the write-back of slot k has ended; the later ones move up a slot
BgWithout(k) ==
  [j \in BgSlots |->
     IF j < k THEN bg[j]
     ELSE IF j + 1 \in BgSlots THEN bg[j + 1]
     ELSE NoTask]

BgOpen(k) ==
  /\ Quiet
  /\ bg[k].pc = "open"
  /\ caches' = CachesOpen(caches, CACHE_NAME(bg[k].w))
  /\ bg' = [bg EXCEPT ![k].pc = "put"]
  /\ UNCHANGED <<wstate, skipWaitingFlag, toDelete, controller, events,
                 notifVars, lastFetched>>

BgPut(k) ==
  /\ Quiet
  /\ bg[k].pc = "put"
  /\ caches' = IF bg[k].detached THEN caches
               ELSE CachePut(caches, CACHE_NAME(bg[k].w), bg[k].url,
                             bg[k].resp)
  /\ bg' = BgWithout(k)
  /\ UNCHANGED <<wstate, skipWaitingFlag, toDelete, controller, events,
                 notifVars, lastFetched>>

\* a redundant worker is terminated by the host: a callback of it that has
\* not run yet never runs
BgDrop(k) ==
  /\ Quiet
  /\ bg[k].pc = "put"
  /\ wstate[bg[k].w] = "redundant"
  /\ bg' = BgWithout(k)
  /\ UNCHANGED <<wstate, skipWaitingFlag, toDelete, controller, caches,
                 events, notifVars, lastFetched>>

Next ==
  \/ \E w \in Workers : InstallStart(w)
  \/ \E w \in Workers : InstallOpen(w)
  \/ \E w \in Workers : InstallAddAllOk(w)
  \/ \E w \in Workers : InstallAddAllFail(w)
  \/ \E w \in Workers : TryActivate(w)
  \/ \E w \in Workers : ActivateKeys(w)
  \/ \E w \in Workers : \E n \in toDelete[w] : ActivateDelete(w, n)
  \/ \E w \in Workers : ActivateClaim(w)
  \/ \E w \in Workers : ActivateDone(w)
  \/ \E w \in Workers, s \in Slots, req \in Requests :
       FetchDispatch(w, s, req)
  \/ \E s \in Slots : \E r \in NetResponses : NavFetchOk(s, r)
  \/ \E s \in Slots : NavFetchFail(s)
  \/ \E s \in Slots : NavMatch(s)
  \/ \E s \in Slots : SubMatch(s)
  \/ \E s \in Slots : \E r \in NetResponses : SubFetchOk(s, r)
  \/ \E s \in Slots : SubFetchFail(s)
  \/ \E s \in Slots : Retire(s)
  \/ \E k \in BgSlots : BgOpen(k)
  \/ \E k \in BgSlots : BgPut(k)
  \/ \E k \in BgSlots : BgDrop(k)

Spec == Init /\ [][Next]_vars

\* the host completes the cache operations it has started and hands every
\* settled outcome to the page
FairSpec ==
  /\ Spec
  /\ \A s \in Slots : WF_vars(Retire(s))
  /\ \A k \in BgSlots : SF_vars(BgOpen(k) \/ BgPut(k))

(* ======================= push and notification click =================== *)
\* a worker that is installed and active, its bucket precached
InstalledBucket(w) ==
  [name |-> CACHE_NAME(w),
   entries |-> EntriesPutAll(EmptyEntries, ASSETS_TO_CACHE(w),
                             AssetResponse(w))]

InitNotif ==
  /\ \E w \in Workers :
       /\ wstate \in {[o \in Workers |-> IF o = w THEN "activated" ELSE st] :
                        st \in IF w = "v10" THEN {"parsed", "redundant"}
                                ELSE {"parsed"}}
       /\ controller = w
       /\ caches = <<InstalledBucket(w)>>
  /\ skipWaitingFlag = [o \in Workers |-> wstate[o] # "parsed"]
  /\ toDelete = [o \in Workers |-> {}]
  /\ events = [s \in Slots |-> IdleEvent]
  /\ bg = [k \in BgSlots |-> NoTask]
  /\ canOpenWindow \in BOOLEAN
  /\ windows = <<>>
  /\ push = IdlePush
  /\ notif = NoNotification
  /\ click = IdleClick
  /\ lastFetched = NoneFetched

\* a settled push or click is cleared before anything else happens (its
\* "done" record only shows how it ended)
Settled == push.pc = "done" \/ click.pc = "done"

(* the user opens and closes windows while no click is being routed *)
UserOpen(u, c) ==
  /\ ~Settled
  /\ click.pc = "idle"
  /\ Len(windows) < MaxWindows
  /\ windows' = Append(windows, [url |-> u, controlled |-> c])
  /\ UNCHANGED <<cacheVars, canOpenWindow, push, notif, click>>

RemoveAt(q, i) == SubSeq(q, 1, i - 1) \o SubSeq(q, i + 1, Len(q))

UserClose(i) ==
  /\ ~Settled
  /\ click.pc = "idle"
  /\ i \in 1..Len(windows)
  /\ windows' = RemoveAt(windows, i)
  /\ UNCHANGED <<cacheVars, canOpenWindow, push, notif, click>>

(* push listener *)
\* a listener that shows the default notification for a push without data
PushAlwaysShows(w, msg) ==
  /\ ~Settled
  /\ wstate[w] = "activated"
  /\ push.pc = "idle"
  /\ push' =
       IF msg.hasData /\ ~msg.decodable
       THEN [IdlePush EXCEPT !.pc = "done", !.w = w, !.msg = msg,
                             !.error = TRUE]
       ELSE [IdlePush EXCEPT !.pc = "showing", !.w = w, !.msg = msg,
                             !.decoded = TRUE,
                             !.pending = NotificationDescriptor(w, msg)]
  /\ UNCHANGED <<cacheVars, canOpenWindow, windows, notif, click>>

\* if (event.data) { ... event.waitUntil(showNotification(...)) }
Push(w, msg) ==
  /\ ~Settled
  /\ wstate[w] = "activated"
  /\ push.pc = "idle"
  /\ push' =
       IF ~msg.hasData
       THEN [IdlePush EXCEPT !.pc = "done", !.w = w, !.msg = msg]
       ELSE IF ~msg.decodable
       THEN [IdlePush EXCEPT !.pc = "done", !.w = w, !.msg = msg,
                             !.error = TRUE]
       ELSE [IdlePush EXCEPT !.pc = "showing", !.w = w, !.msg = msg,
                             !.decoded = TRUE,
                             !.pending = NotificationDescriptor(w, msg)]
  /\ UNCHANGED <<cacheVars, canOpenWindow, windows, notif, click>>

\* showNotification settles; the promise given to waitUntil settles with it
PushShown ==
  /\ ~Settled
  /\ push.pc = "showing"
  /\ notif' = push.pending
  /\ push' = [push EXCEPT !.pc = "done", !.shows = @ + 1]
  /\ UNCHANGED <<cacheVars, canOpenWindow, windows, click>>

PushRetire ==
  /\ push.pc = "done"
  /\ push' = IdlePush
  /\ UNCHANGED <<cacheVars, canOpenWindow, windows, notif, click>>

(* notificationclick listener *)
\* a listener that leaves the notification on display
NotificationClickNoClose(w) ==
  /\ ~Settled
  /\ wstate[w] = "activated"
  /\ notif.state = "shown"
  /\ click.pc = "idle"
  /\ notif' = notif
  /\ click' = [IdleClick EXCEPT
                 !.pc = "matchAll", !.w = w, !.rawUrl = notif.url,
                 !.urlToOpen = IF w = "v10"
                               THEN ResolveUrl(notif.url, Origin)
                               ELSE notif.url,
                 !.ops = <<Op("matchAll", 0, <<>>)>>]
  /\ UNCHANGED <<cacheVars, canOpenWindow, windows, push>>

\* the synchronous part: close, resolve the target, call matchAll
NotificationClick(w) ==
  /\ ~Settled
  /\ wstate[w] = "activated"
  /\ notif.state = "shown"
  /\ click.pc = "idle"
  /\ notif' = [notif EXCEPT !.state = "closed"]
  /\ click' = [IdleClick EXCEPT
                 !.pc = "matchAll", !.w = w, !.rawUrl = notif.url,
                 !.urlToOpen = IF w = "v10"
                               THEN ResolveUrl(notif.url, Origin)
                               ELSE notif.url,
                 !.ops = <<Op("close", 0, <<>>), Op("matchAll", 0, <<>>)>>]
  /\ UNCHANGED <<cacheVars, canOpenWindow, windows, push>>

\* a callback that calls openWindow without testing that the host has it
RouteV10Unguarded(cs) ==
  LET m == MatchingClient(cs, click.urlToOpen)
  IN  IF m # 0
      THEN IF cs[m].url # click.urlToOpen
           THEN [click EXCEPT !.pc = "navigating", !.sel = cs[m].id,
                   !.ops = Append(@, Op("navigate", cs[m].id,
                                        click.urlToOpen))]
           ELSE [click EXCEPT !.pc = "focusing", !.sel = cs[m].id,
                   !.ops = Append(@, Op("focus", cs[m].id, <<>>))]
      ELSE [click EXCEPT !.pc = "opening",
              !.ops = Append(@, Op("openWindow", 0, click.urlToOpen))]

\* the callback of matchAll in part_000
RouteV10(cs) ==
  LET m == MatchingClient(cs, click.urlToOpen)
  IN  IF m # 0
      THEN IF cs[m].url # click.urlToOpen
           THEN [click EXCEPT !.pc = "navigating", !.sel = cs[m].id,
                   !.ops = Append(@, Op("navigate", cs[m].id,
                                        click.urlToOpen))]
           ELSE [click EXCEPT !.pc = "focusing", !.sel = cs[m].id,
                   !.ops = Append(@, Op("focus", cs[m].id, <<>>))]
      ELSE IF canOpenWindow
           THEN [click EXCEPT !.pc = "opening",
                   !.ops = Append(@, Op("openWindow", 0, click.urlToOpen))]
           ELSE [click EXCEPT !.pc = "done"]

\* the callback of matchAll in sw.js
RouteV5(cs) ==
  LET m == FirstExact(cs, click.urlToOpen)
  IN  IF m # 0
      THEN [click EXCEPT !.pc = "focusing", !.sel = cs[m].id,
              !.ops = Append(@, Op("focus", cs[m].id, <<>>))]
      ELSE IF canOpenWindow
           THEN [click EXCEPT !.pc = "opening",
                   !.ops = Append(@, Op("openWindow", 0, click.urlToOpen))]
           ELSE [click EXCEPT !.pc = "done"]

ClickMatched ==
  /\ ~Settled
  /\ click.pc = "matchAll"
  /\ LET cs == MatchAll(windows, click.w = "v10")
         nx == IF click.w = "v10" THEN RouteV10(cs) ELSE RouteV5(cs)
     IN  click' = [nx EXCEPT !.clients = cs,
                             !.open = MatchAll(windows, TRUE)]
  /\ UNCHANGED <<cacheVars, canOpenWindow, windows, push, notif>>

\* how the host can settle WindowClient.navigate(url): it rejects for a
\* client this worker does not control, resolves with null when the target
\* is on another origin, and otherwise resolves with the client or rejects
NavigateOutcomes(c, u) ==
  IF ~c.controlled THEN {"reject"}
  ELSE IF u[1] # Origin THEN {"null"}
  ELSE {"client", "reject"}

\* navigate settled; then(client => client.focus())
ClickNavigated(out) ==
  /\ ~Settled
  /\ click.pc = "navigating"
  /\ out \in NavigateOutcomes(windows[click.sel], click.urlToOpen)
  /\ IF out = "client"
     THEN /\ windows' = [windows EXCEPT ![click.sel].url = click.urlToOpen]
          /\ click' = [click EXCEPT !.pc = "focusing",
                         !.ops = Append(@, Op("focus", click.sel, <<>>))]
     ELSE IF out = "null"
     THEN /\ windows' = RemoveAt(windows, click.sel)
          /\ click' = [click EXCEPT !.pc = "done", !.error = TRUE]
     ELSE /\ windows' = windows
          /\ click' = [click EXCEPT !.pc = "done", !.error = TRUE]
  /\ UNCHANGED <<cacheVars, canOpenWindow, push, notif>>

ClickFocused ==
  /\ ~Settled
  /\ click.pc = "focusing"
  /\ click' = [click EXCEPT !.pc = "done"]
  /\ UNCHANGED <<cacheVars, canOpenWindow, windows, push, notif>>

\* clients.openWindow(url) settled: the host parses url against the
\* worker's location and opens the window there; a window of this origin
\* joins the list while the list has room
ClickOpened ==
  /\ ~Settled
  /\ click.pc = "opening"
  /\ LET at == ResolveUrl(click.ops[Len(click.ops)].url, Origin)
     IN  windows' = IF at[1] = Origin /\ Len(windows) < MaxWindows
                    THEN Append(windows, [url |-> at, controlled |-> TRUE])
                    ELSE windows
  /\ click' = [click EXCEPT !.pc = "done"]
  /\ UNCHANGED <<cacheVars, canOpenWindow, push, notif>>

ClickRetire ==
  /\ click.pc = "done"
  /\ click' = IdleClick
  /\ UNCHANGED <<cacheVars, canOpenWindow, windows, push, notif>>

NextNotif ==
  \/ \E u \in WinUrls, c \in BOOLEAN : UserOpen(u, c)
  \/ \E i \in 1..Len(windows) : UserClose(i)
  \/ \E w \in Workers, msg \in PushMessages : Push(w, msg)
  \/ PushShown
  \/ PushRetire
  \/ \E w \in Workers : NotificationClick(w)
  \/ ClickMatched
  \/ \E out \in {"client", "null", "reject"} : ClickNavigated(out)
  \/ ClickFocused
  \/ ClickOpened
  \/ ClickRetire

NotifSpec == InitNotif /\ [][NextNotif]_vars

(* ===================== navigations that race ========================== *)
\* one script is installed and active; pages navigate, every fetch is
\* answered with a basic 200 response, and up to MaxRaceBg write-backs are
\* in flight at once
InitRace ==
  /\ \E w \in Workers :
       /\ wstate = [o \in Workers |-> IF o = w THEN "activated" ELSE "parsed"]
       /\ controller = w
       /\ caches = <<InstalledBucket(w)>>
  /\ skipWaitingFlag = [o \in Workers |-> wstate[o] # "parsed"]
  /\ toDelete = [o \in Workers |-> {}]
  /\ events = [s \in Slots |-> IdleEvent]
  /\ bg = [k \in BgSlots |-> NoTask]
  /\ canOpenWindow = TRUE
  /\ windows = <<>>
  /\ push = IdlePush
  /\ notif = NoNotification
  /\ click = IdleClick
  /\ lastFetched = NoneFetched

\* the then handler, with the response of the fetch recorded as the last
\* one fetched for the URL
RaceNavFetchOk(s, r) ==
  /\ NavFetchThen(s, r, MaxRaceBg)
  /\ lastFetched' = [lastFetched EXCEPT ![events[s].url] = r]

NextRace ==
  \/ \E w \in Workers, s \in Slots, req \in NavRequests :
       FetchDispatch(w, s, req)
  \/ \E s \in Slots : \E b \in Contents : RaceNavFetchOk(s, Ok200(b))
  \/ \E s \in Slots : Retire(s)
  \/ \E k \in BgSlots : BgOpen(k)
  \/ \E k \in BgSlots : BgPut(k)

RaceSpec == InitRace /\ [][NextRace]_vars

(* ============================== claims ================================= *)
\* the responses stored under URL u, in any bucket
Stored(cs, u) ==
  {cs[i].entries[u] : i \in {j \in 1..Len(cs) : u \in DOMAIN cs[j].entries}}

IsAuthPath(path) ==
  StartsWith(path, <<"/login">>) \/ StartsWith(path, <<"/authorize">>)

Done(s) == events[s].pc = "done"

\* C1: a fetch event whose path starts with /login or /authorize is never
\* answered: respondWith is not called, and the listener makes no network
\* fetch, no cache read and no cache write for it.
C1_AuthRoutesDeclined ==
  \A s \in Slots :
    (events[s].pc # "idle" /\ IsAuthPath(Pathname(events[s].url))) =>
      /\ events[s].pc = "done"
      /\ events[s].outcome = "declined"
      /\ events[s].nRespond = 0
      /\ events[s].net = 0
      /\ events[s].reads = 0
      /\ events[s].spawned = 0

Declined(e) ==
  e.outcome = "declined" /\ e.nRespond = 0 /\ e.resp = NoResponse

Answered(e) ==
  /\ e.outcome = "response"
  /\ e.nRespond = 1
  /\ e.resp # NoResponse
  /\ e.src \in {"cache", "network"}

\* respondWith was called and settled without a response, after the one
\* network fetch failed and the one cache lookup found nothing
FailedVisibly(e) ==
  /\ e.outcome = "failed"
  /\ e.nRespond = 1
  /\ e.resp = NoResponse
  /\ e.netFailed
  /\ e.net = 1
  /\ e.reads = 1

\* C2 as stated: every request ends declined or with exactly one response
\* from the cache or the network, never with neither.
C2_DeclinedOrAnswered ==
  \A s \in Slots : Done(s) => Declined(events[s]) \/ Answered(events[s])

\* C2 amended: every request ends declined, or with exactly one response
\* from the cache or the network, or - only when its network fetch failed
\* and its cache lookup found nothing - with respondWith settled without a
\* response, so that the request fails visibly to the page.  (The lookup of
\* a navigation is its last step, so storage holds no entry for the URL;
\* a sub-resource goes to the network only after its lookup has missed.)
C2_DeclinedAnsweredOrFailed ==
  \A s \in Slots :
    Done(s) =>
      \/ Declined(events[s])
      \/ Answered(events[s])
      \/ /\ FailedVisibly(events[s])
         /\ events[s].mode = "navigate" =>
              Stored(caches, events[s].url) = {}

C2_Witness ==
  \E s \in Slots :
    Done(s) /\ events[s].mode = "navigate" /\ events[s].outcome = "failed"

\* the bucket named for worker w holds response r under URL u
Present(w, u, r) ==
  /\ HasBucket(caches, CACHE_NAME(w))
  /\ u \in DOMAIN caches[BucketIndex(caches, CACHE_NAME(w))].entries
  /\ caches[BucketIndex(caches, CACHE_NAME(w))].entries[u] = r

\* a navigation answered from the network with a basic 200 response has
\* started a write-back of that very response under its URL
ReturnedIsWrittenBack ==
  \A s \in Slots :
    (/\ Done(s) /\ events[s].mode = "navigate"
     /\ events[s].src = "network" /\ IsCacheable(events[s].resp)) =>
       \E k \in BgSlots :
         bg[k] = WriteBack(events[s].w, events[s].url, events[s].resp)

C4_NavigationFallback ==
  [][\A s \in Slots :
       /\ (Quiet /\ events[s].pc = "nav_fetch"
            /\ events'[s].pc = "nav_match") =>
            caches' = caches /\ bg' = bg
       /\ (Quiet /\ events[s].pc = "nav_match"
            /\ events'[s].pc # "nav_match") =>
            /\ events'[s].pc = "done"
            /\ events'[s].net = 1
            /\ events'[s].spawned = 0
            /\ caches' = caches /\ bg' = bg
            /\ IF Stored(caches, events[s].url) # {}
               THEN /\ events'[s].outcome = "response"
                    /\ events'[s].src = "cache"
                    /\ events'[s].resp \in Stored(caches, events[s].url)
               ELSE /\ events'[s].outcome = "failed"
                    /\ events'[s].resp = NoResponse]_vars

C4_Witness ==
  \E s \in Slots :
    /\ Done(s) /\ events[s].mode = "navigate" /\ events[s].netFailed
    /\ events[s].outcome = "response" /\ events[s].src = "cache"

\* C5: a sub-resource request that is not bypassed and whose URL is in the
\* cache when it is looked up is answered with a stored entry for that URL
\* and makes no network fetch.
C5_CacheFirstHit ==
  [][\A s \in Slots :
       (/\ Quiet
        /\ events[s].pc = "sub_match" /\ events'[s].pc # "sub_match"
        /\ Stored(caches, events[s].url) # {}) =>
          /\ events'[s].pc = "done"
          /\ events'[s].outcome = "response"
          /\ events'[s].src = "cache"
          /\ events'[s].resp \in Stored(caches, events[s].url)
          /\ events'[s].net = 0]_vars

C5_Witness ==
  \E s \in Slots :
    /\ Done(s) /\ events[s].mode # "navigate" /\ events[s].src = "cache"
    /\ events[s].net = 0

ManifestUrls(w) ==
  {<<Origin>> \o ASSETS_TO_CACHE(w)[i] : i \in 1..Len(ASSETS_TO_CACHE(w))}

InstallCompleted(w) == wstate[w] \in {"installed"} \cup ActiveStates

\* C6: once install has completed, the bucket named CACHE_NAME holds a
\* response for every manifest path, and a sub-resource request for a
\* manifest asset is answered with that stored response, without a network
\* fetch.
C6_PrecacheServes ==
  /\ \A w \in Workers :
       InstallCompleted(w) =>
         /\ HasBucket(caches, CACHE_NAME(w))
         /\ ManifestUrls(w) \subseteq
              DOMAIN caches[BucketIndex(caches, CACHE_NAME(w))].entries
  /\ \A s \in Slots :
       (/\ Done(s) /\ events[s].mode # "navigate"
        /\ events[s].url \in ManifestUrls(events[s].w)) =>
          /\ events[s].outcome = "response"
          /\ events[s].src = "cache"
          /\ events[s].net = 0
          /\ events[s].resp =
               caches[BucketIndex(caches, CACHE_NAME(events[s].w))]
                 .entries[events[s].url]

C6_Witness ==
  \E s \in Slots :
    /\ Done(s) /\ events[s].mode # "navigate" /\ events[s].w = "v10"
    /\ events[s].url \in ManifestUrls("v10")
    /\ events[s].src = "cache"

\* C7: when the activation of a worker completes, cache storage holds no
\* bucket whose name differs from the worker's CACHE_NAME.
C7_OnlyCurrentBucketAfterActivate ==
  [][\A w \in Workers :
       (wstate[w] = "activate_claim" /\ wstate'[w] = "activated") =>
          BucketNames(caches') \subseteq {CACHE_NAME(w)}]_vars

\* the click has been routed: the callback of matchAll has run
Routed == click.pc \in {"navigating", "focusing", "opening", "done"}

\* the notification's target, resolved against the worker's origin
Target == ResolveUrl(click.rawUrl, Origin)

ExactWindows == {i \in 1..Len(click.open) : click.open[i].url = Target}

OpsNamed(name) == {k \in 1..Len(click.ops) : click.ops[k].op = name}

\* C8: when some open window is at the resolved target, an exactly
\* matching window is focused, whatever its position in the list, and no
\* window is navigated or opened.
C8_ExactMatchFocused ==
  (Routed /\ ExactWindows # {}) =>
    /\ OpsNamed("navigate") = {}
    /\ OpsNamed("openWindow") = {}
    /\ Cardinality(OpsNamed("focus")) = 1
    /\ \A k \in OpsNamed("focus") : click.ops[k].id \in ExactWindows

\* C9: when windows are open but none is at the resolved target, one of
\* them is asked to navigate to the target, focus is requested only after
\* that and on the client of the navigation, and no window is opened.
C9_NavigateThenFocus ==
  (Routed /\ Len(click.open) > 0 /\ ExactWindows = {}) =>
    /\ OpsNamed("openWindow") = {}
    /\ Len(click.ops) \in {3, 4}
    /\ click.ops[3].op = "navigate"
    /\ click.ops[3].url = Target
    /\ click.ops[3].id \in 1..Len(click.open)
    /\ Len(click.ops) = 4 =>
         click.ops[4] = Op("focus", click.ops[3].id, <<>>)

\* C10: when no window is open, a host that can open windows is asked for
\* exactly one new window, at the target resolved against the worker's
\* origin, and a host that cannot is asked for nothing: no focus, navigate
\* or open request is made and the listener ends without an error.
C10_NoWindowOpensOne ==
  (Routed /\ Len(click.open) = 0) =>
    IF canOpenWindow
    THEN /\ Len(click.ops) = 3
         /\ click.ops[3].op = "openWindow"
         /\ IsAbsolute(Target)
         /\ ResolveUrl(click.ops[3].url, Origin) = Target
         /\ click.pc = "done" => ~click.error
    ELSE /\ Len(click.ops) = 2
         /\ click.pc = "done"
         /\ ~click.error

C10_Witness ==
  /\ click.pc = "done" /\ click.w = "v10" /\ Len(click.open) = 0
  /\ ~IsAbsolute(click.rawUrl)
  /\ OpsNamed("openWindow") # {}

\* the push event has ended and its payload was decoded
PushDecodedDone ==
  push.pc = "done" /\ push.msg.hasData /\ push.msg.decodable

\* the data member of the payload, {} when it has none
PayloadData == IF push.msg.dataPresent THEN push.msg.data ELSE EmptyData

\* a field's value, or d when the field is absent
FieldOr(f, d) == IF f.present THEN f.val ELSE d

\* a field's value, or d when the field is absent or empty
FieldOrIfEmpty(f, d, empty) ==
  IF f.present /\ f.val # empty THEN f.val ELSE d

\* C11 as stated: a push with a decodable payload displays exactly one
\* notification whose title, body and data.url are data.title, data.body and
\* the absolute form of data.url, each absent field replaced by its default.
C11_DescriptorAbsoluteUrl ==
  PushDecodedDone =>
    /\ push.shows = 1
    /\ notif.state = "shown"
    /\ notif.title = FieldOr(PayloadData.title, "Prayer Reminder")
    /\ notif.body = FieldOr(PayloadData.body, "It's time for prayer.")
    /\ notif.url = ResolveUrl(FieldOr(PayloadData.url, <<"/">>), Origin)

\* C11 amended: a push with a decodable payload displays exactly one
\* notification whose title, body and data.url are data.title, data.body and
\* data.url as the payload gives them (data.url is stored unresolved), each
\* field that is absent or empty replaced by its default.
C11_DescriptorAsGiven ==
  PushDecodedDone =>
    /\ push.shows = 1
    /\ notif.state = "shown"
    /\ notif.title = FieldOrIfEmpty(PayloadData.title, "Prayer Reminder", "")
    /\ notif.body =
         FieldOrIfEmpty(PayloadData.body, "It's time for prayer.", "")
    /\ notif.url = FieldOrIfEmpty(PayloadData.url, <<"/">>, <<>>)

C11_Witness ==
  /\ PushDecodedDone
  /\ push.msg.data.title = Given("")
  /\ notif.title = "Prayer Reminder"
  /\ notif.url = <<"/">>

\* the manifest URLs the bucket named for worker w holds
ManifestHeld(cs, w) ==
  IF HasBucket(cs, CACHE_NAME(w))
  THEN ManifestUrls(w) \cap DOMAIN cs[BucketIndex(cs, CACHE_NAME(w))].entries
  ELSE {}

\* C12: precache is all-or-nothing.  The bucket of a version never holds a
\* part of its manifest; when addAll rejects, nothing of the manifest is
\* stored, the other workers and the controller of the pages stay as they
\* are, and the failed version is redundant from then on: it never becomes
\* the active worker, although it called skipWaiting.
C12_PrecacheAllOrNothing ==
  /\ [](\A w \in Workers : ManifestHeld(caches, w) \in {{}, ManifestUrls(w)})
  /\ [][\A w \in Workers :
         (wstate[w] = "install_addAll" /\ wstate'[w] # "installed"
          /\ wstate'[w] # "install_addAll") =>
           /\ wstate'[w] = "redundant"
           /\ skipWaitingFlag'[w]
           /\ ManifestHeld(caches', w) = {}
           /\ controller' = controller
           /\ \A o \in Workers \ {w} : wstate'[o] = wstate[o]]_vars
  /\ [][\A w \in Workers :
         wstate[w] = "redundant" => wstate'[w] = "redundant"]_vars

C12_Witness ==
  /\ wstate["v10"] = "redundant"
  /\ skipWaitingFlag["v10"]
  /\ wstate["v5"] = "activated"
  /\ controller = "v5"
  /\ ManifestHeld(caches, "v10") = {}
  /\ \E s \in Slots : events[s].w = "v5" /\ Done(s)

\* the versions deployed after w
Newer(w) == IF w = "v5" THEN {"v10"} ELSE {}

\* bucket names that are not stale for a page controlled by w: its own and
\* that of a newer version being installed
CurrentNames(w) == {CACHE_NAME(w)} \cup {CACHE_NAME(o) : o \in Newer(w)}

\* C13: clients.claim is called only when every deletion of a stale bucket
\* has completed, and in every state in which the pages are claimed by a
\* version no bucket of another, older version exists.
C13_ClaimedMeansNoStaleBucket ==
  \A w \in Workers :
    /\ wstate[w] \in {"activate_claim", "activated"} => toDelete[w] = {}
    /\ (controller = w /\ IsActive(w)) =>
         BucketNames(caches) \subseteq CurrentNames(w)

\* C14: every cache lookup of the fetch handler is confined to the bucket
\* named CACHE_NAME: a response that was returned from the cache is the
\* entry the worker's own bucket holds for the URL, never an entry of the
\* bucket of another version.
C14_LookupsConfinedToOwnBucket ==
  \A s \in Slots :
    (Done(s) /\ events[s].src = "cache") =>
      Present(events[s].w, events[s].url, events[s].resp)

\* a same-origin response with status 200
IsBasic200(r) == r.status = 200 /\ r.type = "basic"

\* C15: the fetch handler changes the cache only for a navigation whose
\* network response has status 200 and type basic.  No step of a fetch
\* event writes to a bucket; a step starts a write-back only when it returns
\* such a response of a navigation, and then the write-back is for that URL
\* and that response; a navigation's other network responses are returned
\* as they are; every write-back in flight is of a basic 200 response of a
\* navigation.
C15_WritesOnlyForBasic200Navigation ==
  /\ [](\A k \in BgSlots :
         bg[k] # NoTask => IsBasic200(bg[k].resp) /\ bg[k].url \in NavUrls)
  /\ [][\A s \in Slots :
         (Quiet /\ events'[s] # events[s]) =>
           /\ caches' = caches
           /\ bg' # bg =>
                /\ events[s].mode = "navigate"
                /\ events[s].pc = "nav_fetch"
                /\ events'[s].src = "network"
                /\ IsBasic200(events'[s].resp)
                /\ \E k \in BgSlots :
                     /\ bg[k] = NoTask
                     /\ bg' = [bg EXCEPT ![k] =
                                 WriteBack(events[s].w, events[s].url,
                                           events'[s].resp)]
           /\ (events[s].pc = "nav_fetch" /\ events'[s].pc = "done") =>
                /\ events'[s].outcome = "response"
                /\ events'[s].src = "network"
                /\ events'[s].resp \in NetResponses
                /\ ~IsBasic200(events'[s].resp) => bg' = bg]_vars

C15_Witness ==
  /\ \E s \in Slots :
       /\ Done(s) /\ events[s].mode = "navigate" /\ events[s].w = "v10"
       /\ events[s].src = "network" /\ events[s].resp = Cors200
  /\ \A k \in BgSlots : bg[k] = NoTask
  /\ BucketNames(caches) = {CACHE_NAME("v10")}
  /\ <<Origin, "/">> \notin DOMAIN caches[1].entries

\* what storage holds under the bucket name n
BucketOf(cs, n) ==
  IF HasBucket(cs, n)
  THEN [exists |-> TRUE, entries |-> cs[BucketIndex(cs, n)].entries]
  ELSE [exists |-> FALSE, entries |-> EmptyEntries]

\* a step of the write-back in slot k: its open or its put has settled, or
\* it was dropped with its worker
WriteBackStep(k) ==
  /\ bg[k] # NoTask
  /\ events' = events /\ wstate' = wstate /\ toDelete' = toDelete
  /\ bg' = [bg EXCEPT ![k].pc = "put"] \/ bg' = BgWithout(k)
  /\ bg' # bg

\* C16: a write-back issued by a worker of version v only ever writes to
\* the bucket named for v: whatever a step of a write-back does, every
\* bucket of another name, the newer version's in particular, keeps its
\* entries, and none is created or removed.
C16_WriteBackOnlyOwnBucket ==
  [][(\E k \in BgSlots : WriteBackStep(k)) =>
       \E k \in BgSlots :
         /\ WriteBackStep(k)
         /\ \A n \in (BucketNames(caches) \cup BucketNames(caches')) \
                      {CACHE_NAME(bg[k].w)} :
              BucketOf(caches', n) = BucketOf(caches, n)]_vars

C16_Witness ==
  /\ wstate["v5"] = "redundant"
  /\ wstate["v10"] = "activated"
  /\ HasBucket(caches, CACHE_NAME("v10"))
  /\ BucketOf(caches, CACHE_NAME("v5")).exists
  /\ <<Origin, "/">> \in DOMAIN BucketOf(caches, CACHE_NAME("v5")).entries
  /\ <<Origin, "/">> \notin DOMAIN BucketOf(caches, CACHE_NAME("v10")).entries

\* C17: on every notification click the clicked notification is closed,
\* and the close is the first request the listener makes: it precedes the
\* enumeration of the windows and every focus, navigate and open request,
\* on every branch.
C17_ClosedFirst ==
  /\ [](click.pc # "idle" =>
          /\ Len(click.ops) >= 2
          /\ click.ops[1] = Op("close", 0, <<>>)
          /\ click.ops[2] = Op("matchAll", 0, <<>>)
          /\ OpsNamed("close") = {1}
          /\ OpsNamed("matchAll") = {2})
  /\ [][(click.pc = "idle" /\ click'.pc # "idle") =>
          /\ notif.state = "shown"
          /\ notif' = [notif EXCEPT !.state = "closed"]
          /\ windows' = windows]_vars

C17_Witness ==
  /\ click.pc = "done"
  /\ ~canOpenWindow
  /\ Len(click.open) = 0
  /\ Len(click.ops) = 2
  /\ notif.state = "closed"

\* a push event without a payload has ended with nothing done
PushWithoutPayloadIdle ==
  (push.pc # "idle" /\ ~push.msg.hasData) =>
    /\ push.pc = "done"
    /\ ~push.decoded /\ ~push.error /\ push.shows = 0
    /\ push.pending = NoNotification

\* the event is not done while the display is pending
PushEndsAfterDisplay ==
  /\ push.pc = "showing" => push.shows = 0
  /\ (push.pc = "done" /\ push.decoded) =>
       push.shows = 1 /\ notif = push.pending

\* C18: a push event that carries no payload does nothing: it ends at once,
\* nothing is decoded, no notification is displayed or changed, and neither
\* the cache nor a window is touched.  A push with a payload whose display
\* was started is not ended before the display has settled: while the
\* display is pending the event is not done, and when it is done the
\* notification is on display.
C18_NoPayloadNoEffect ==
  /\ [](PushWithoutPayloadIdle /\ PushEndsAfterDisplay)
  /\ [][(push.pc = "idle" /\ push'.pc # "idle" /\ ~push'.msg.hasData) =>
          /\ notif' = notif
          /\ windows' = windows
          /\ click' = click
          /\ cacheVars' = cacheVars]_vars

C18_Witness ==
  /\ push.pc = "done"
  /\ ~push.msg.hasData
  /\ push.shows = 0
  /\ notif.state = "shown"
  /\ Len(windows) > 0

\* C19: when several navigations of one URL are handled interleaved and
\* every fetch succeeds with a basic 200 response, then once no write-back
\* for the URL is in flight, the bucket's entry for the URL is the response
\* of the navigation whose fetch completed last.
C19_LastFetchedEndsInCache ==
  \A u \in NavUrls :
    (/\ lastFetched[u] # NoResponse
     /\ \A k \in BgSlots : bg[k] = NoTask \/ bg[k].url # u) =>
       Present(controller, u, lastFetched[u])

\* C20: once the activation of a version has deleted the stale buckets, no
\* bucket exists whose name is neither the version's CACHE_NAME nor that of
\* a newer version being installed, whatever the superseded worker's
\* write-backs do.
C20_NoStaleBucketEverAgain ==
  \A w \in Workers :
    (wstate[w] \in {"activate_claim", "activated"} /\ toDelete[w] = {}) =>
      \A n \in BucketNames(caches) : n \in CurrentNames(w)

====
